---------------------------- MODULE Spec2Model ----------------------------
(***************************************************************************)
(* The announce protocol's connection handler (src/src/announce/handler.rs) *)
(* as a state machine: the Handler's two queues, the ProtocolsHandler       *)
(* methods the swarm calls on it, and the transport that negotiates the     *)
(* substreams the Handler asks for.                                         *)
(*                                                                          *)
(* History variables (callbacks, submitted, returned) record what was       *)
(* called and what poll returned; every callback and every submitted        *)
(* request carries a serial number (cb, req) so that one call can be told   *)
(* from another of equal payload, and an inbound callback records how many  *)
(* requests had been submitted when it was made (submitted_before).         *)
(***************************************************************************)
EXTENDS Integers, Sequences, FiniteSets

\* ------------------------------------------------------------------ bounds
MaxCalls == 3      \* requests submitted plus inbound substreams, in one behaviour of Spec
FairMaxCalls == 2  \* the same, in one behaviour of FairSpec and of PeerSpec
MaxBytes == 4      \* length of the byte sequences a digest is constructed from

\* ------------------------------------------------------------- value sets
Digests == {"D1", "D2"}                \* SwapDigest values
SwapIds == {"swap-42"}                 \* identifiers a remote confirms with
UpgrErrs == {"Timeout", "Upgrade"}     \* ProtocolsHandlerUpgrErr: timeout, or the codec's error
Bytes == {0, 1, 2, 18, 171, 255}       \* the bytes digests are made of in DigestSpec
HashCodes == {18}                      \* multihash codes known: 0x12, sha2-256

VARIABLES
    handler,          \* the Handler: [events, dial_queue]
    ret,              \* what the last call of poll returned
    in_flight,        \* requests handed to the transport, outcome not yet reported
    callbacks,        \* history: the transport callbacks made on the Handler, in order
    submitted,        \* history: the requests given to inject_event, in order
    returned,         \* history: what poll returned, Pending left out, in order
    inbound_failures, \* history: inbound negotiations that failed in the codec
    remote,           \* the Handler at the other end of the connection
    remote_accepted,  \* history: the request each callback on `remote` came from
    remote_returned,  \* history: what poll of `remote` returned, Pending left out
    replies,          \* the ReplySubstreams given out by `remote` and used up since
    digest            \* a SwapDigest on its way through serialize and deserialize

remote_vars == <<remote, remote_accepted, remote_returned, replies>>

vars == <<handler, ret, in_flight, callbacks, submitted, returned,
          inbound_failures, remote_vars, digest>>

Last(s) == s[Len(s)]

\* ----------------------------------------------------------------- Handler

\* impl Default for Handler
Handler_default == [events |-> <<>>, dial_queue |-> <<>>]

\* HandlerEvent, each tagged with the serial number of the callback that made it
AwaitingConfirmation(sender, cb) ==
    [kind |-> "AwaitingConfirmation", sender |-> sender, cb |-> cb]

ReceivedConfirmation(confirmed, cb) ==
    [kind |-> "ReceivedConfirmation", confirmed |-> confirmed, cb |-> cb]

\* HandlerEvent::Error(Error::Upgrade(err))
Error(err, cb) ==
    [kind |-> "Error", err |-> err, cb |-> cb]

push_front(q, x) == <<x>> \o q

\* Mutant of inject_fully_negotiated_inbound: the event is queued twice.
inject_fully_negotiated_inbound_twice(self, sender, cb) ==
    [self EXCEPT !.events = Append(Append(@, AwaitingConfirmation(sender, cb)),
                                   AwaitingConfirmation(sender, cb))]

\* Mutant of inject_fully_negotiated_inbound: the substream is let go.
inject_fully_negotiated_inbound_drop(self, sender, cb) == self

inject_fully_negotiated_inbound(self, sender, cb) ==
    [self EXCEPT !.events = Append(@, AwaitingConfirmation(sender, cb))]

\* Mutant of inject_fully_negotiated_outbound: the confirmation is discarded.
inject_fully_negotiated_outbound_drop(self, confirmed, cb) == self

inject_fully_negotiated_outbound(self, confirmed, cb) ==
    [self EXCEPT !.events = Append(@, ReceivedConfirmation(confirmed, cb))]

\* Mutant of inject_event: a request is refused while another is queued.
inject_event_bounded(self, event) ==
    IF self.dial_queue = <<>>
    THEN [self EXCEPT !.dial_queue = Append(@, event)]
    ELSE self

\* Mutant of inject_event: the request goes to the head of the queue.
inject_event_front(self, event) ==
    [self EXCEPT !.dial_queue = push_front(@, event)]

inject_event(self, event) ==
    [self EXCEPT !.dial_queue = Append(@, event)]

\* Mutant of inject_dial_upgrade_error: the error overtakes the queued events.
inject_dial_upgrade_error_front(self, err, cb) ==
    [self EXCEPT !.events = push_front(@, Error(err, cb))]

inject_dial_upgrade_error(self, err, cb) ==
    [self EXCEPT !.events = Append(@, Error(err, cb))]

\* Mutant of connection_keep_alive: an idle Handler lets the connection go.
connection_keep_alive_idle(self) ==
    IF self.events = <<>> /\ self.dial_queue = <<>> THEN "No" ELSE "Yes"

connection_keep_alive(self) == "Yes"

\* ProtocolsHandlerEvent, and Poll::Pending
Pending == [kind |-> "Pending"]
Custom(event) == [kind |-> "Custom", event |-> event]
Close(err, cb) == [kind |-> "Close", err |-> err, cb |-> cb]
OutboundSubstreamRequest(upgrade) ==
    [kind |-> "OutboundSubstreamRequest", protocol |-> upgrade]

\* Mutant of poll: a queued request is issued before the queued events.
poll_dials_first(self) ==
    IF self.dial_queue # <<>>
    THEN [self |-> [self EXCEPT !.dial_queue = Tail(@)],
          out |-> OutboundSubstreamRequest(Head(self.dial_queue))]
    ELSE IF self.events # <<>>
    THEN LET event == Head(self.events)
             rest == [self EXCEPT !.events = Tail(@)]
         IN  IF event.kind = "Error"
             THEN [self |-> rest, out |-> Close(event.err, event.cb)]
             ELSE [self |-> rest, out |-> Custom(event)]
    ELSE [self |-> self, out |-> Pending]

\* Mutant of poll: returning the error drops the events queued behind it.
poll_clear_on_error(self) ==
    IF self.events # <<>>
    THEN LET event == Head(self.events)
         IN  IF event.kind = "Error"
             THEN [self |-> [self EXCEPT !.events = <<>>],
                   out |-> Close(event.err, event.cb)]
             ELSE [self |-> [self EXCEPT !.events = Tail(@)], out |-> Custom(event)]
    ELSE IF self.dial_queue # <<>>
    THEN [self |-> [self EXCEPT !.dial_queue = Tail(@)],
          out |-> OutboundSubstreamRequest(Head(self.dial_queue))]
    ELSE [self |-> self, out |-> Pending]

\* Mutant of poll: the issued request stays at the front of dial_queue.
poll_keep_dial(self) ==
    IF self.events # <<>>
    THEN LET event == Head(self.events)
             rest == [self EXCEPT !.events = Tail(@)]
         IN  IF event.kind = "Error"
             THEN [self |-> rest, out |-> Close(event.err, event.cb)]
             ELSE [self |-> rest, out |-> Custom(event)]
    ELSE IF self.dial_queue # <<>>
    THEN [self |-> self, out |-> OutboundSubstreamRequest(Head(self.dial_queue))]
    ELSE [self |-> self, out |-> Pending]

\* Mutant of poll: an Error event is returned like any other event.
poll_error_as_custom(self) ==
    IF self.events # <<>>
    THEN [self |-> [self EXCEPT !.events = Tail(@)],
          out |-> Custom(Head(self.events))]
    ELSE IF self.dial_queue # <<>>
    THEN [self |-> [self EXCEPT !.dial_queue = Tail(@)],
          out |-> OutboundSubstreamRequest(Head(self.dial_queue))]
    ELSE [self |-> self, out |-> Pending]

\* Mutant of poll: issuing a request empties dial_queue.
poll_dial_drains(self) ==
    IF self.events # <<>>
    THEN LET event == Head(self.events)
             rest == [self EXCEPT !.events = Tail(@)]
         IN  IF event.kind = "Error"
             THEN [self |-> rest, out |-> Close(event.err, event.cb)]
             ELSE [self |-> rest, out |-> Custom(event)]
    ELSE IF self.dial_queue # <<>>
    THEN [self |-> [self EXCEPT !.dial_queue = <<>>],
          out |-> OutboundSubstreamRequest(Head(self.dial_queue))]
    ELSE [self |-> self, out |-> Pending]

\* Mutant of poll: dial_queue is never looked at.
poll_events_only(self) ==
    IF self.events # <<>>
    THEN LET event == Head(self.events)
             rest == [self EXCEPT !.events = Tail(@)]
         IN  IF event.kind = "Error"
             THEN [self |-> rest, out |-> Close(event.err, event.cb)]
             ELSE [self |-> rest, out |-> Custom(event)]
    ELSE [self |-> self, out |-> Pending]

\* Mutant of poll: returning the error gives up the queued requests.
poll_close_clears_dials(self) ==
    IF self.events # <<>>
    THEN LET event == Head(self.events)
             rest == [self EXCEPT !.events = Tail(@)]
         IN  IF event.kind = "Error"
             THEN [self |-> [rest EXCEPT !.dial_queue = <<>>],
                   out |-> Close(event.err, event.cb)]
             ELSE [self |-> rest, out |-> Custom(event)]
    ELSE IF self.dial_queue # <<>>
    THEN [self |-> [self EXCEPT !.dial_queue = Tail(@)],
          out |-> OutboundSubstreamRequest(Head(self.dial_queue))]
    ELSE [self |-> self, out |-> Pending]

\* poll: the Handler after the call, and what the call returned
poll(self) ==
    IF self.events # <<>>
    THEN LET event == Head(self.events)
             rest == [self EXCEPT !.events = Tail(@)]
         IN  IF event.kind = "Error"
             THEN [self |-> rest, out |-> Close(event.err, event.cb)]
             ELSE [self |-> rest, out |-> Custom(event)]
    ELSE IF self.dial_queue # <<>>
    THEN [self |-> [self EXCEPT !.dial_queue = Tail(@)],
          out |-> OutboundSubstreamRequest(Head(self.dial_queue))]
    ELSE [self |-> self, out |-> Pending]

\* -------------------------------------------------------------------- Init

\* No digest is being converted.
NoDigest == [pc |-> "none"]

\* A connection just made: a fresh Handler at each end.
InitConnection ==
    /\ handler = Handler_default
    /\ ret = [kind |-> "NotPolled"]
    /\ in_flight = {}
    /\ callbacks = <<>>
    /\ submitted = <<>>
    /\ returned = <<>>
    /\ inbound_failures = 0
    /\ remote = Handler_default
    /\ remote_accepted = <<>>
    /\ remote_returned = <<>>
    /\ replies = {}

Init ==
    /\ InitConnection
    /\ digest = NoDigest

\* ----------------------------------------------------------------- actions

\* The calls the behaviour and the remote have started so far: requests
\* submitted, inbound substreams negotiated or failed.
Calls ==
    Len(submitted) + Len(SelectSeq(callbacks, LAMBDA c : c.kind = "Inbound"))
        + inbound_failures

\* The behaviour hands the Handler a request: inject_event(OutboundConfig).
InjectEvent(max) ==
    /\ Calls < max
    /\ \E d \in Digests :
         LET event == [swap_digest |-> d, req |-> Len(submitted) + 1]
         IN  /\ handler' = inject_event(handler, event)
             /\ submitted' = Append(submitted, event)
    /\ UNCHANGED <<ret, in_flight, callbacks, returned, inbound_failures>>
    /\ UNCHANGED <<remote_vars, digest>>

\* A remote's announce was read on an inbound substream: the Handler is given
\* the ReplySubstream.
InjectFullyNegotiatedInbound(max) ==
    /\ Calls < max
    /\ \E d \in Digests :
         LET cb == Len(callbacks) + 1
             sender == [swap_digest |-> d]
         IN  /\ handler' = inject_fully_negotiated_inbound(handler, sender, cb)
             /\ callbacks' = Append(callbacks,
                                [kind |-> "Inbound", cb |-> cb,
                                 submitted_before |-> Len(submitted)])
    /\ UNCHANGED <<ret, in_flight, submitted, returned, inbound_failures>>
    /\ UNCHANGED <<remote_vars, digest>>

\* The substream opened for a request was negotiated and the remote confirmed.
InjectFullyNegotiatedOutbound ==
    /\ \E r \in in_flight, id \in SwapIds :
         LET cb == Len(callbacks) + 1
             confirmed == [swap_id |-> id, swap_digest |-> r.swap_digest]
         IN  /\ handler' = inject_fully_negotiated_outbound(handler, confirmed, cb)
             /\ callbacks' = Append(callbacks,
                                [kind |-> "Outbound", cb |-> cb, req |-> r.req,
                                 confirmed |-> confirmed])
             /\ in_flight' = in_flight \ {r}
    /\ UNCHANGED <<ret, submitted, returned, inbound_failures>>
    /\ UNCHANGED <<remote_vars, digest>>

\* The substream opened for a request failed to upgrade.
InjectDialUpgradeError ==
    /\ \E r \in in_flight, err \in UpgrErrs :
         LET cb == Len(callbacks) + 1
         IN  /\ handler' = inject_dial_upgrade_error(handler, err, cb)
             /\ callbacks' = Append(callbacks,
                                [kind |-> "DialUpgradeError", cb |-> cb,
                                 req |-> r.req, err |-> err])
             /\ in_flight' = in_flight \ {r}
    /\ UNCHANGED <<ret, submitted, returned, inbound_failures>>
    /\ UNCHANGED <<remote_vars, digest>>

\* An inbound negotiation failed in the codec. The Handler implements no
\* method for it: none of its state changes.
InboundUpgradeError(max) ==
    /\ Calls < max
    /\ inbound_failures' = inbound_failures + 1
    /\ UNCHANGED <<handler, ret, in_flight, callbacks, submitted, returned>>
    /\ UNCHANGED <<remote_vars, digest>>

Poll ==
    LET p == poll(handler)
    IN  /\ handler' = p.self
        /\ ret' = p.out
        /\ returned' = IF p.out.kind = "Pending" THEN returned
                       ELSE Append(returned, p.out)
        /\ in_flight' = IF p.out.kind = "OutboundSubstreamRequest"
                        THEN in_flight \cup {p.out.protocol}
                        ELSE in_flight
        /\ UNCHANGED <<callbacks, submitted, inbound_failures>>
        /\ UNCHANGED <<remote_vars, digest>>

Step(max) ==
    \/ InjectEvent(max)
    \/ InjectFullyNegotiatedInbound(max)
    \/ InboundUpgradeError(max)
    \/ InjectFullyNegotiatedOutbound
    \/ InjectDialUpgradeError
    \/ Poll

Next == Step(MaxCalls)

Spec == Init /\ [][Next]_vars

FairNext == Step(FairMaxCalls)

\* The swarm polls the Handler again after every call it makes on it.
FairSpec == Init /\ [][FairNext]_vars /\ WF_vars(Poll)

\* ------------------------------------------------- the connection's two ends

\* `handler` is the announcing end: its behaviour starts the announce protocol
\* with inject_event, and each substream it asks for is accepted at `remote`.

\* The requests whose announce has reached `remote`.
Accepted == {remote_accepted[c] : c \in DOMAIN remote_accepted}

\* The callbacks on `remote` whose ReplySubstream poll has given out.
GivenOut ==
    {remote_returned[i].event.cb : i \in DOMAIN remote_returned}

\* The ReplySubstreams the remote's behaviour holds: given out, not used up.
Held == GivenOut \ {x.cb : x \in replies}

\* The substream asked for with request r is negotiated at `remote`: the
\* inbound upgrade reads the announced digest and yields a ReplySubstream.
RemoteAccept ==
    /\ \E r \in in_flight :
         /\ r.req \notin Accepted
         /\ LET cb == Len(remote_accepted) + 1
                sender == [swap_digest |-> r.swap_digest]
            IN  /\ remote' = inject_fully_negotiated_inbound(remote, sender, cb)
                /\ remote_accepted' = Append(remote_accepted, r.req)
    /\ UNCHANGED <<handler, ret, in_flight, callbacks, submitted, returned,
                   inbound_failures, remote_returned, replies, digest>>

RemotePoll ==
    LET p == poll(remote)
    IN  /\ remote' = p.self
        /\ remote_returned' = IF p.out.kind = "Pending" THEN remote_returned
                              ELSE Append(remote_returned, p.out)
        /\ UNCHANGED <<handler, ret, in_flight, callbacks, submitted, returned,
                       inbound_failures, remote_accepted, replies, digest>>

\* The request that callback c on `remote` came from.
RequestOf(c) == CHOOSE r \in in_flight : r.req = remote_accepted[c]

\* The remote's behaviour writes the Confirm message through a ReplySubstream
\* it holds: the substream is used up, and the outbound upgrade of the
\* announcing end completes with the Confirmed.
ReplySend ==
    /\ \E c \in Held, id \in SwapIds :
         LET r == RequestOf(c)
             cb == Len(callbacks) + 1
             confirmed == [swap_id |-> id, swap_digest |-> r.swap_digest]
         IN  /\ replies' = replies \cup {[cb |-> c, outcome |-> "written"]}
             /\ handler' = inject_fully_negotiated_outbound(handler, confirmed, cb)
             /\ callbacks' = Append(callbacks,
                                [kind |-> "Outbound", cb |-> cb, req |-> r.req,
                                 confirmed |-> confirmed])
             /\ in_flight' = in_flight \ {r}
    /\ UNCHANGED <<ret, submitted, returned, inbound_failures, remote,
                   remote_accepted, remote_returned, digest>>

\* The remote's behaviour drops a ReplySubstream it holds without writing:
\* the substream closes, and the outbound upgrade of the announcing end fails
\* reading the Confirm message.
ReplyDrop ==
    /\ \E c \in Held :
         LET r == RequestOf(c)
             cb == Len(callbacks) + 1
         IN  /\ replies' = replies \cup {[cb |-> c, outcome |-> "dropped"]}
             /\ handler' = inject_dial_upgrade_error(handler, "Upgrade", cb)
             /\ callbacks' = Append(callbacks,
                                [kind |-> "DialUpgradeError", cb |-> cb,
                                 req |-> r.req, err |-> "Upgrade"])
             /\ in_flight' = in_flight \ {r}
    /\ UNCHANGED <<ret, submitted, returned, inbound_failures, remote,
                   remote_accepted, remote_returned, digest>>

PeerNext ==
    \/ InjectEvent(FairMaxCalls)
    \/ Poll
    \/ RemoteAccept
    \/ RemotePoll
    \/ ReplySend
    \/ ReplyDrop

\* Both ends are polled again and again, and the transport negotiates every
\* substream asked for.
PeerSpec ==
    /\ Init
    /\ [][PeerNext]_vars
    /\ WF_vars(Poll)
    /\ WF_vars(RemoteAccept)
    /\ WF_vars(RemotePoll)

\* --------------------------------------------------------------- SwapDigest

\* Text is a sequence of characters; hex::encode writes these sixteen.
HexDigits ==
    <<"0", "1", "2", "3", "4", "5", "6", "7", "8", "9", "a", "b", "c", "d", "e", "f">>

\* hex::decode also reads the upper-case letters.
UpperHexDigits ==
    <<"0", "1", "2", "3", "4", "5", "6", "7", "8", "9", "A", "B", "C", "D", "E", "F">>

IsHexDigit(ch) ==
    \E v \in 1..16 : HexDigits[v] = ch \/ UpperHexDigits[v] = ch

HexVal(ch) ==
    (CHOOSE v \in 1..16 : HexDigits[v] = ch \/ UpperHexDigits[v] = ch) - 1

\* hex::encode: two lower-case digits for each byte, high nibble first.
hex_encode(bytes) ==
    [i \in 1..(2 * Len(bytes)) |->
        LET b == bytes[(i + 1) \div 2]
        IN  IF i % 2 = 1 THEN HexDigits[(b \div 16) + 1] ELSE HexDigits[(b % 16) + 1]]

\* hex::decode: an odd length or a character that is no hex digit is an error.
hex_decode(text) ==
    IF Len(text) % 2 # 0 \/ \E i \in DOMAIN text : ~IsHexDigit(text[i])
    THEN [ok |-> FALSE]
    ELSE [ok |-> TRUE,
          value |-> [i \in 1..(Len(text) \div 2) |->
                        16 * HexVal(text[2 * i - 1]) + HexVal(text[2 * i])]]

\* Multihash::from_bytes: the hash code, the digest's length, the digest; an
\* unknown code or a length that is not that of the bytes that follow is an
\* error. A Multihash keeps the bytes it was made from.
Multihash_from_bytes(bytes) ==
    IF /\ Len(bytes) >= 2
       /\ bytes[1] \in HashCodes
       /\ bytes[2] = Len(bytes) - 2
    THEN [ok |-> TRUE, value |-> [bytes |-> bytes]]
    ELSE [ok |-> FALSE]

\* Multihash::as_bytes: code, length and digest; Multihash::digest: the
\* digest alone.
as_bytes(multihash) == multihash.bytes
digest_bytes(multihash) == SubSeq(multihash.bytes, 3, Len(multihash.bytes))

\* SwapDigest::new
SwapDigest_new(multihash) == [multihash |-> multihash]

\* Mutant of serialize: the digest is written without its hash framing.
serialize_digest_only(self) == hex_encode(digest_bytes(self.multihash))

\* impl Serialize for SwapDigest: the string handed to the serializer.
serialize(self) == hex_encode(as_bytes(self.multihash))

\* impl Deserialize for SwapDigest, from the string the deserializer gives.
deserialize(hex) ==
    LET bytes == hex_decode(hex)
    IN  IF ~bytes.ok THEN [ok |-> FALSE]
        ELSE LET multihash == Multihash_from_bytes(bytes.value)
             IN  IF ~multihash.ok THEN [ok |-> FALSE]
                 ELSE [ok |-> TRUE, value |-> SwapDigest_new(multihash.value)]

\* The byte sequences a digest is constructed from.
ByteSeqs == UNION {[1..n -> Bytes] : n \in 0..MaxBytes}

DigestInit ==
    /\ InitConnection
    /\ digest \in {[pc |-> "bytes", bytes |-> b] : b \in ByteSeqs}

\* A SwapDigest is constructed from raw hash bytes.
Construct ==
    /\ digest.pc = "bytes"
    /\ LET multihash == Multihash_from_bytes(digest.bytes)
       IN  digest' = IF multihash.ok
                     THEN [pc |-> "constructed", bytes |-> digest.bytes,
                           value |-> SwapDigest_new(multihash.value)]
                     ELSE [pc |-> "malformed", bytes |-> digest.bytes]
    /\ UNCHANGED <<handler, ret, in_flight, callbacks, submitted, returned,
                   inbound_failures, remote_vars>>

Serialize ==
    /\ digest.pc = "constructed"
    /\ digest' = [pc |-> "serialized", bytes |-> digest.bytes,
                  value |-> digest.value, text |-> serialize(digest.value)]
    /\ UNCHANGED <<handler, ret, in_flight, callbacks, submitted, returned,
                   inbound_failures, remote_vars>>

Deserialize ==
    /\ digest.pc = "serialized"
    /\ digest' = [pc |-> "deserialized", bytes |-> digest.bytes,
                  value |-> digest.value, text |-> digest.text,
                  parsed |-> deserialize(digest.text)]
    /\ UNCHANGED <<handler, ret, in_flight, callbacks, submitted, returned,
                   inbound_failures, remote_vars>>

DigestNext ==
    \/ Construct
    \/ Serialize
    \/ Deserialize

DigestSpec == DigestInit /\ [][DigestNext]_vars

\* ------------------------------------------------------ reading histories

IsEvent(out) == out.kind \in {"Custom", "Close"}
IsRequest(out) == out.kind = "OutboundSubstreamRequest"

\* The callback whose event poll returned as `out`.
CbOf(out) == IF out.kind = "Custom" THEN out.event.cb ELSE out.cb

\* What poll returned for callbacks, and the requests it issued, in order.
ReturnedEvents == SelectSeq(returned, IsEvent)
IssuedRequests == SelectSeq(returned, IsRequest)

\* Callback c's event has been returned by poll.
Delivered(c) == \E i \in DOMAIN returned : IsEvent(returned[i]) /\ CbOf(returned[i]) = c

\* poll has returned a Fatal-Error (Close) before position j of `returned`.
ClosedBefore(j) == \E i \in 1..(j - 1) : returned[i].kind = "Close"

\* This step is a call of poll that returned something.
PollReturned == returned' # returned

\* This step is a call of poll that the state shows (a poll that returns
\* Pending right after another one changes nothing).
PollStep == ret' # ret \/ returned' # returned

\* The place in `returned` of callback c's event, of request k's
\* outbound-substream-request; 0 when poll has not returned it.
EventAt(c) ==
    IF Delivered(c)
    THEN CHOOSE i \in DOMAIN returned : IsEvent(returned[i]) /\ CbOf(returned[i]) = c
    ELSE 0

RequestAt(k) ==
    IF \E i \in DOMAIN returned : IsRequest(returned[i]) /\ returned[i].protocol.req = k
    THEN CHOOSE i \in DOMAIN returned :
            IsRequest(returned[i]) /\ returned[i].protocol.req = k
    ELSE 0

\* This step is a transport callback of the given kind.
CallbackOf(kind) ==
    /\ Len(callbacks') = Len(callbacks) + 1
    /\ Last(callbacks').kind = kind

\* ------------------------------------------------------------------ claims

\* C1: poll never returns an outbound-substream-request when the
\* pending-events queue is non-empty at the moment poll is called.
C1_NoDialWhileEventsPending ==
    [][(PollReturned /\ IsRequest(ret')) => handler.events = <<>>]_vars

\* C1's case: poll returned the events of two callbacks or more, and the
\* poll right after the last of them issued a request.
C1_Witness ==
    \E i \in DOMAIN returned :
        /\ i > 1
        /\ IsRequest(returned[i])
        /\ IsEvent(returned[i - 1])
        /\ CbOf(returned[i - 1]) > 1

\* C2 (as claimed): once poll has returned a Fatal-Error, no later poll
\* returns a Received-Confirmation or Awaiting-Confirmation event.
C2_NoEventAfterFatal ==
    \A j \in DOMAIN returned :
        ClosedBefore(j) => returned[j].kind # "Custom"

\* C3 (as claimed): once poll has returned a Fatal-Error, no later poll
\* returns an outbound-substream-request.
C3_NoDialAfterFatal ==
    \A j \in DOMAIN returned :
        ClosedBefore(j) => ~IsRequest(returned[j])

\* C4: each transport callback produces exactly one event from poll: its
\* event is never returned twice, only events of callbacks made are returned,
\* and, poll being called again and again, it is eventually returned.
C4_ExactlyOnce ==
    /\ [](\A i, j \in DOMAIN ReturnedEvents :
            /\ CbOf(ReturnedEvents[i]) \in 1..Len(callbacks)
            /\ i # j => CbOf(ReturnedEvents[i]) # CbOf(ReturnedEvents[j]))
    /\ \A c \in 1..FairMaxCalls : (Len(callbacks) >= c) ~> Delivered(c)

\* C4's case: an inbound substream, a confirmation and an upgrade failure
\* have each had their event returned.
C4_Witness ==
    /\ Len(callbacks) >= 2
    /\ \A c \in 1..Len(callbacks) : Delivered(c)
    /\ \E c \in 1..Len(callbacks) : callbacks[c].kind = "DialUpgradeError"
    /\ \E c \in 1..Len(callbacks) : callbacks[c].kind # "DialUpgradeError"

\* C5: poll returns events in the order of their callbacks, whatever their
\* kind and whatever requests are submitted in between.
C5_EventsInCallbackOrder ==
    /\ \A i \in DOMAIN ReturnedEvents : CbOf(ReturnedEvents[i]) = i
    /\ \A k \in DOMAIN handler.events :
         handler.events[k].cb = Len(ReturnedEvents) + k

\* C5's case: events of all three kinds were returned, requests were issued
\* in between.
C5_Witness ==
    /\ \E i \in DOMAIN returned : returned[i].kind = "Close"
    /\ \E i \in DOMAIN returned :
         returned[i].kind = "Custom" /\ returned[i].event.kind = "AwaitingConfirmation"
    /\ \E i \in DOMAIN returned :
         returned[i].kind = "Custom" /\ returned[i].event.kind = "ReceivedConfirmation"
    /\ \E i \in DOMAIN returned :
         /\ i > 1
         /\ i < Len(returned)
         /\ IsRequest(returned[i])
         /\ IsEvent(returned[i - 1])
         /\ IsEvent(returned[i + 1])

\* C6: requests are issued in the order they were submitted: the i-th
\* outbound-substream-request poll returns is for the i-th request submitted.
C6_DialsFifo ==
    /\ Len(IssuedRequests) <= Len(submitted)
    /\ \A i \in DOMAIN IssuedRequests : IssuedRequests[i].protocol = submitted[i]

\* C6's case (scenario C): D1 then D2 submitted, no transport activity, and
\* two polls returned the requests for D1 then D2.
C6_Witness ==
    /\ callbacks = <<>>
    /\ inbound_failures = 0
    /\ Len(submitted) = 2
    /\ submitted[1].swap_digest = "D1"
    /\ submitted[2].swap_digest = "D2"
    /\ returned = <<OutboundSubstreamRequest(submitted[1]),
                    OutboundSubstreamRequest(submitted[2])>>

\* C7: every submitted request is consumed exactly once: submitted =
\* issued + queued, no request is issued twice, none stays queued once issued.
C7_RequestConsumedOnce ==
    /\ Len(submitted) = Len(IssuedRequests) + Len(handler.dial_queue)
    /\ \A i, j \in DOMAIN IssuedRequests :
         i # j => IssuedRequests[i].protocol.req # IssuedRequests[j].protocol.req
    /\ \A i \in DOMAIN IssuedRequests, k \in DOMAIN handler.dial_queue :
         IssuedRequests[i].protocol.req # handler.dial_queue[k].req

\* C7's case: some requests issued, another still queued.
C7_Witness ==
    /\ Len(IssuedRequests) >= 2
    /\ handler.dial_queue # <<>>

\* C8: in every reachable state of the Handler the keep-alive signal is yes.
C8_KeepAliveYes ==
    connection_keep_alive(handler) = "Yes"

\* C8's case: an idle Handler (both queues empty, poll returned Pending)
\* after a Fatal-Error.
C8_Witness ==
    /\ connection_keep_alive(handler) = "Yes"
    /\ handler = Handler_default
    /\ ret = Pending
    /\ \E i \in DOMAIN returned : returned[i].kind = "Close"

\* C9: an outbound upgrade failure appends exactly one Error event to the
\* tail of events and leaves dial_queue as it is; poll returns an Error event
\* as Close, never as Custom.
C9_UpgradeFailureIsFatal ==
    /\ [][CallbackOf("DialUpgradeError") =>
            /\ handler'.events =
                 Append(handler.events,
                        Error(Last(callbacks').err, Last(callbacks').cb))
            /\ handler'.dial_queue = handler.dial_queue]_vars
    /\ [](\A i \in DOMAIN returned :
            /\ returned[i].kind = "Custom" => returned[i].event.kind # "Error"
            /\ IsEvent(returned[i]) =>
                 (returned[i].kind = "Close"
                    <=> callbacks[CbOf(returned[i])].kind = "DialUpgradeError"))

\* C9's case: an upgrade failure reported while a request was queued and an
\* event was ahead of it; poll returned it as Close, the request still queued.
C9_Witness ==
    /\ handler.dial_queue # <<>>
    /\ ret.kind = "Close"
    /\ ret.cb > 1

\* Codec errors that have occurred on the connection's substreams: failed
\* inbound negotiations, and outbound upgrades that failed in the codec.
CodecErrors ==
    inbound_failures
    + Len(SelectSeq(callbacks,
                    LAMBDA c : c.kind = "DialUpgradeError" /\ c.err = "Upgrade"))

\* Codec errors the Handler holds as a queued Error event or has returned
\* from poll as Close.
CodecErrorsSurfaced ==
    Len(SelectSeq(handler.events, LAMBDA e : e.kind = "Error" /\ e.err = "Upgrade"))
    + Len(SelectSeq(returned, LAMBDA o : o.kind = "Close" /\ o.err = "Upgrade"))

\* C10 (as claimed): every codec error on a substream, outbound or inbound, is
\* surfaced by the Handler as a Fatal-Error: it is queued as an Error event
\* or poll has returned it as Close.
C10_CodecErrorSurfaced ==
    CodecErrors = CodecErrorsSurfaced

\* C11: once the transport has reported a successful outbound negotiation
\* with a Confirmed, poll returns Received-Confirmation carrying exactly that
\* Confirmed before it returns any further outbound-substream-request.
C11_ConfirmationBeforeNextDial ==
    [][(PollReturned /\ IsRequest(ret')) =>
         \A c \in DOMAIN callbacks :
            callbacks[c].kind = "Outbound" =>
               /\ EventAt(c) # 0
               /\ returned[EventAt(c)] =
                    Custom(ReceivedConfirmation(callbacks[c].confirmed, c))]_vars

\* C11's case (scenario A, with a second request submitted in the meantime):
\* request 1 was issued and confirmed with swap-42, and poll has just
\* returned that Received-Confirmation while request 2 waits in dial_queue.
C11_Witness ==
    /\ Len(submitted) = 2
    /\ Len(returned) = 2
    /\ returned[1] = OutboundSubstreamRequest(submitted[1])
    /\ ret = returned[2]
    /\ ret.kind = "Custom"
    /\ ret.event.kind = "ReceivedConfirmation"
    /\ ret.event.confirmed =
         [swap_id |-> "swap-42", swap_digest |-> submitted[1].swap_digest]
    /\ handler.dial_queue = <<submitted[2]>>

\* C12: once poll has returned the Awaiting-Confirmation of an inbound
\* substream, the Handler produces no further event for that handle, whether
\* the behaviour writes a Confirm through it or drops it: writing or dropping
\* changes nothing in that Handler, each handle is returned once and is not
\* queued again, and no Error event is queued or returned.
C12_NoEventAfterHandle ==
    /\ [][replies' # replies =>
            /\ remote' = remote
            /\ remote_returned' = remote_returned]_vars
    /\ [](/\ \A c \in GivenOut :
               /\ \A k \in DOMAIN remote.events : remote.events[k].cb # c
               /\ Cardinality({i \in DOMAIN remote_returned :
                                  remote_returned[i].event.cb = c}) = 1
          /\ \A k \in DOMAIN remote.events : remote.events[k].kind # "Error"
          /\ \A i \in DOMAIN remote_returned :
               /\ remote_returned[i].kind = "Custom"
               /\ remote_returned[i].event.kind = "AwaitingConfirmation")

\* C12's case: one handle was written through, another was dropped, and the
\* Handler that gave them out has been polled until its queue was empty.
C12_Witness ==
    /\ \E x \in replies : x.outcome = "written"
    /\ \E x \in replies : x.outcome = "dropped"
    /\ remote.events = <<>>
    /\ Len(remote_returned) = 2

C14_SubmitAppends ==
    /\ \A d \in Digests :
         LET event == [swap_digest |-> d, req |-> Len(submitted) + 1]
             after == inject_event(handler, event)
         IN  /\ after.dial_queue = Append(handler.dial_queue, event)
             /\ after.events = handler.events
    /\ Len(handler.dial_queue) <= Len(submitted)
    /\ \A k \in DOMAIN handler.dial_queue :
         handler.dial_queue[k] =
            submitted[Len(submitted) - Len(handler.dial_queue) + k]

\* C14's case: a Handler that has returned a Fatal-Error holds two submitted
\* requests, queued in the order they were submitted.
C14_Witness ==
    /\ \E i \in DOMAIN returned : returned[i].kind = "Close"
    /\ Len(handler.dial_queue) >= 2

\* C16: poll returns "no event" exactly when both queues are empty, and then
\* leaves both as they are; when it returns an outbound-substream-request it
\* removes only the front of dial_queue and appends nothing to events.
C16_PollFrame ==
    LET p == poll(handler)
    IN  /\ p.out.kind = "Pending"
             <=> (handler.events = <<>> /\ handler.dial_queue = <<>>)
        /\ p.out.kind = "Pending" => p.self = handler
        /\ IsRequest(p.out) =>
             /\ p.out.protocol = Head(handler.dial_queue)
             /\ p.self.dial_queue = Tail(handler.dial_queue)
             /\ p.self.events = handler.events
             /\ p.self.events = <<>>

\* C16's case: poll has just issued a request and left another queued, no
\* event queued; the request's outcome is not yet reported.
C16_Witness ==
    /\ IsRequest(ret)
    /\ ret.protocol \in in_flight
    /\ handler.events = <<>>
    /\ Len(handler.dial_queue) = 1
    /\ Len(submitted) = Len(IssuedRequests) + 1

\* C17: the order between issuing a request and delivering an inbound event
\* is set by timing alone. The one order that is fixed: a request submitted
\* after the inbound callback is never issued before that callback's event is
\* returned. For a request submitted before the callback, both orders occur
\* (C17_Witness).
C17_OrderSetByTiming ==
    \A c \in DOMAIN callbacks, i \in DOMAIN returned :
        (/\ callbacks[c].kind = "Inbound"
         /\ IsRequest(returned[i])
         /\ returned[i].protocol.req > callbacks[c].submitted_before)
        => (EventAt(c) # 0 /\ EventAt(c) < i)

\* C17's case, both orders in one behaviour: requests 1 and 2 were submitted
\* before inbound callback c; request 1 was issued before c's event was
\* returned, request 2 only after.
C17_Witness ==
    \E c \in DOMAIN callbacks :
        /\ callbacks[c].kind = "Inbound"
        /\ callbacks[c].submitted_before >= 2
        /\ EventAt(c) # 0
        /\ RequestAt(1) # 0
        /\ RequestAt(1) < EventAt(c)
        /\ RequestAt(2) > EventAt(c)

\* C18: with poll called again and again and finitely many submits and
\* callbacks, every submitted request is eventually issued, every callback's
\* event is eventually returned, and in the end both queues stay empty and
\* poll returns Pending; a queued request waits only for queued events.
C18_Progress ==
    /\ \A k \in 1..FairMaxCalls : (Len(submitted) >= k) ~> (RequestAt(k) # 0)
    /\ \A c \in 1..FairMaxCalls : (Len(callbacks) >= c) ~> Delivered(c)
    /\ <>[](handler = Handler_default /\ ret = Pending)
    /\ [][(PollStep /\ handler.events = <<>> /\ handler.dial_queue # <<>>)
            => (IsRequest(ret') /\ ret'.protocol = Head(handler.dial_queue))]_vars

\* C18's case: requests and callbacks have all been served and poll has
\* returned Pending.
C18_Witness ==
    /\ Len(submitted) + Len(callbacks) >= 3
    /\ Len(IssuedRequests) = Len(submitted)
    /\ Len(ReturnedEvents) = Len(callbacks)
    /\ handler = Handler_default
    /\ ret = Pending

\* C19: an Error event neither jumps the events queue nor clears it: it is
\* appended at the tail, the events returned before the Fatal-Error are
\* exactly those of the callbacks made before the failure, and the poll that
\* returns the Fatal-Error removes that one event only, leaving the events
\* behind it and the whole of dial_queue.
C19_ErrorKeepsQueues ==
    /\ [][CallbackOf("DialUpgradeError") =>
            /\ Len(handler'.events) = Len(handler.events) + 1
            /\ SubSeq(handler'.events, 1, Len(handler.events)) = handler.events]_vars
    /\ [][(PollReturned /\ ret'.kind = "Close") =>
            /\ handler.events # <<>>
            /\ Head(handler.events) = Error(ret'.err, ret'.cb)
            /\ handler'.events = Tail(handler.events)
            /\ handler'.dial_queue = handler.dial_queue]_vars
    /\ [](\A i \in DOMAIN ReturnedEvents :
            ReturnedEvents[i].kind = "Close" =>
               \A c \in 1..(ReturnedEvents[i].cb - 1) :
                  \E j \in 1..(i - 1) : CbOf(ReturnedEvents[j]) = c)

\* C19's case: poll has just returned a Fatal-Error; the event queued behind
\* it and a request are still queued.
C19_Witness ==
    /\ ret.kind = "Close"
    /\ handler.events # <<>>
    /\ handler.dial_queue # <<>>

\* C15: digest round trip: for every valid hash byte sequence b, parsing
\* the hex rendering of the digest constructed from b succeeds and yields a
\* digest equal to the one constructed from b.
C15_DigestRoundTrip ==
    digest.pc = "deserialized" =>
        /\ digest.parsed.ok
        /\ digest.parsed.value = digest.value
        /\ as_bytes(digest.parsed.value.multihash) = digest.bytes

\* C15's case: a digest of two bytes, one with a zero high nibble and one
\* written with letters, has gone through serialize and deserialize.
C15_Witness ==
    /\ digest.pc = "deserialized"
    /\ digest.bytes = <<18, 2, 1, 171>>
    /\ digest.text = <<"1", "2", "0", "2", "0", "1", "a", "b">>
    /\ digest.parsed.ok

=============================================================================
